---------------------------- MODULE Spec2Model ----------------------------
(***************************************************************************)
(* fsmonitor: the Monitor dispatch loop (monitor.go, Monitor.Start and     *)
(* Monitor.Stop), the scan worker started by pathScanner.Watch, the timer, *)
(* the callers of Stop and the consumer of Monitor.Notices().              *)
(*                                                                         *)
(* Go channels are modelled by what the runtime does with them:            *)
(*   - an unbuffered send/receive pair is one rendezvous step;             *)
(*   - a buffered channel is a sequence, a send blocks while it is full;   *)
(*   - a send on, or a second close of, a closed channel panics, and a     *)
(*     panic in any goroutine ends the whole process (no recover in the    *)
(*     repository): once panicked # NoPanic no action is enabled;          *)
(*   - select takes any one of its ready cases.                            *)
(***************************************************************************)
EXTENDS Integers, Sequences, FiniteSets, TLC

(* ---------------------------- bounds ----------------------------------- *)
\* scan requests issued in one behaviour
MaxCycles == 3
\* capacity of the notice buffer (notice_buffer_length, 1000 in the source)
notice_buffer_length == 2

(* ----------------------------- events ---------------------------------- *)
FileCreate == 1
FileUpdate == 2
FileRemove == 4
FileRename == 8

(* ------------------------- inputs of the model ------------------------- *)
\* the regular files the walked tree may hold, in filepath.Walk's lexical order
WalkOrder == <<"a", "b">>
Files == {WalkOrder[i] : i \in 1..Len(WalkOrder)}
\* os.FileInfo of a regular file: modification time and size
Metas == { [mtime |-> 1, size |-> 1], [mtime |-> 2, size |-> 2] }
\* the event lists passed to Start
EventInputs ==
    { <<>>, <<FileCreate, FileRemove, 3, FileCreate>> }
\* the pattern strings passed to New; the pattern "a" matches the name "a"
PatternInputs == { <<>>, <<"a">> }
\* the goroutines that may call Monitor.Stop
Callers == {"s1", "s2"}

(* ----------------------------- values ---------------------------------- *)
NoPanic == "none"
NilChan == "nil"
EmptyMap == [f \in {} |-> [mtime |-> 0, size |-> 0]]
NilMap == [isNil |-> TRUE, items |-> EmptyMap]
NoNotice == [cycle |-> 0, path |-> "", event |-> 0]
NoInfo == [mtime |-> 0, size |-> 0]
ZeroRegexp == [zero |-> TRUE, lit |-> ""]

Range(s) == {s[i] : i \in 1..Len(s)}

VARIABLES
    event,          \* Start's variadic event argument
    pattern,        \* the scanner's pattern field, as New built it
    mpc,            \* Monitor.Start: "select", "sendReq", "forward", "reply", "done"
    returning,      \* Start's returning channel: NilChan, or the Stop caller that made it
    timeTick,       \* "nil", "tick" (time.Tick) or "after" (time.After)
    tickReady,      \* a value is waiting in the timeTick channel
    noticeBuffer,   \* the buffered notice channel: its queued notices
    bufClosed,      \* noticeBuffer has been closed
    nccClosed,      \* the request channel ncc has been closed
    cur,            \* the notice n taken by case n := <-noticeBuffer
    eidx,           \* position of the range over event
    wpc,            \* worker: "range", "walk", "send", "remove", "sendRemove", "status", "exited"
    lastCheck,      \* pathScanner.lastCheck
    visited,        \* the map under construction
    created,        \* the created counter
    werr,           \* filepath.Walk returned a non-nil error
    widx,           \* position of the walk in WalkOrder
    pending,        \* the notice the worker is sending on changed
    pinfo,          \* the FileInfo of the file being visited
    todo,           \* keys of lastCheck the removal range has not yet reached
    errClosed,      \* the status channel errors has been closed
    spc,            \* Stop callers: "idle", "sendClosing", "waitReply", "closing", "returned"
    noticesClosed,  \* m.notices has been closed
    panicked,       \* NoPanic or the reason of the runtime panic
    written,        \* history: notices the worker has put in the buffer, in order
    delivered,      \* history: notices received from m.notices, in order
    atClose,        \* history: buffer content when the closed status channel was observed
    reqSent,        \* history: scan requests received by the worker
    statusRecv,     \* history: statuses received by the Monitor
    replies,        \* history: values sent on each Stop caller's reply channel
    finalErr,       \* history: a non-nil status was received after close(ncc)
    stopErr,        \* history: what each Stop caller received from <-stopper
    prevCheck       \* history: s.lastCheck as it was before s.lastCheck = visited

monVars == <<mpc, returning, timeTick, tickReady, cur, eidx>>
chanVars == <<noticeBuffer, bufClosed, nccClosed, errClosed, noticesClosed>>
workerVars == <<wpc, lastCheck, prevCheck, visited, created, werr, widx, pending, pinfo,
               todo>>
histVars == <<written, delivered, atClose, reqSent, statusRecv, replies, finalErr, stopErr>>
vars == <<event, pattern, monVars, chanVars, workerVars, histVars, spc, panicked>>

(* ------------------------------- New ----------------------------------- *)
\* regexp.Compile on a literal pattern string
Compile(pat) == [zero |-> FALSE, lit |-> pat]

\* New: patexp = make([]regexp.Regexp, len(pattern), len(pattern)) followed by
\* one append per pattern string
New(pats) ==
    [i \in 1..Len(pats) |-> ZeroRegexp] \o [i \in 1..Len(pats) |-> Compile(pats[i])]

(* ------------------------------ Init ----------------------------------- *)
\* the state after New and the first statements of Start, for the event
\* lists in events
InitWith(events) ==
    /\ event \in events
    /\ \E pats \in PatternInputs : pattern = New(pats)
    /\ mpc = "select"
    /\ returning = NilChan
    /\ timeTick = "tick"
    /\ tickReady = FALSE
    /\ noticeBuffer = <<>>
    /\ bufClosed = FALSE
    /\ nccClosed = FALSE
    /\ cur = NoNotice
    /\ eidx = 0
    /\ wpc = "range"
    /\ lastCheck = NilMap
    /\ visited = EmptyMap
    /\ created = 0
    /\ werr = FALSE
    /\ widx = 0
    /\ pending = NoNotice
    /\ pinfo = NoInfo
    /\ todo = {}
    /\ errClosed = FALSE
    /\ spc = [c \in Callers |-> "idle"]
    /\ noticesClosed = FALSE
    /\ panicked = NoPanic
    /\ written = <<>>
    /\ delivered = <<>>
    /\ atClose = <<>>
    /\ reqSent = 0
    /\ statusRecv = 0
    /\ replies = [c \in Callers |-> 0]
    /\ finalErr = FALSE
    /\ stopErr = [c \in Callers |-> "none"]
    /\ prevCheck = NilMap

Init == InitWith(EventInputs)

Running == panicked = NoPanic


(* --------------------------- Monitor.Stop ------------------------------ *)
\* Stop: stopper := make(chan error); m.closing <- stopper (blocks until
\* Start's select takes it)
StopCall(c) ==
    /\ Running
    /\ spc[c] = "idle"
    /\ spc' = [spc EXCEPT ![c] = "sendClosing"]
    /\ UNCHANGED <<event, pattern, monVars, chanVars, workerVars, histVars, panicked>>

\* Stop after <-stopper returned nil: close(m.notices); return err
StopClose(c) ==
    /\ Running
    /\ spc[c] = "closing"
    /\ IF noticesClosed
         THEN /\ panicked' = "close of closed channel: notices"
              /\ UNCHANGED <<spc, noticesClosed>>
         ELSE /\ noticesClosed' = TRUE
              /\ spc' = [spc EXCEPT ![c] = "returned"]
              /\ UNCHANGED panicked
    /\ UNCHANGED <<event, pattern, monVars, noticeBuffer, bufClosed, nccClosed,
                   errClosed, workerVars, histVars>>

(* ----------------------------- the timer ------------------------------- *)
\* the runtime timer behind time.Tick / time.After puts a value in the channel
TimerFire ==
    /\ Running
    /\ timeTick # "nil"
    /\ ~tickReady
    /\ reqSent < MaxCycles
    /\ tickReady' = TRUE
    /\ UNCHANGED <<event, pattern, mpc, returning, timeTick, cur, eidx, chanVars,
                   workerVars, histVars, spc, panicked>>

(* --------------------------- Monitor.Start ----------------------------- *)
\* mutant: the caller is released as soon as its request is taken
MonRecvClosing_replying(c) ==
    /\ Running
    /\ mpc = "select"
    /\ spc[c] = "sendClosing"
    /\ returning' = c
    /\ spc' = [spc EXCEPT ![c] = "closing"]
    /\ replies' = [replies EXCEPT ![c] = @ + 1]
    /\ stopErr' = [stopErr EXCEPT ![c] = "nil"]
    /\ IF nccClosed
         THEN /\ panicked' = "close of closed channel: ncc"
              /\ UNCHANGED nccClosed
         ELSE /\ nccClosed' = TRUE
              /\ UNCHANGED panicked
    /\ UNCHANGED <<event, pattern, mpc, timeTick, tickReady, cur, eidx, noticeBuffer,
                   bufClosed, errClosed, noticesClosed, workerVars, written,
                   delivered, atClose, reqSent, statusRecv, finalErr>>

\* case returning = <-m.closing: close(ncc)
MonRecvClosing(c) ==
    /\ Running
    /\ mpc = "select"
    /\ spc[c] = "sendClosing"
    /\ returning' = c
    /\ spc' = [spc EXCEPT ![c] = "waitReply"]
    /\ IF nccClosed
         THEN /\ panicked' = "close of closed channel: ncc"
              /\ UNCHANGED nccClosed
         ELSE /\ nccClosed' = TRUE
              /\ UNCHANGED panicked
    /\ UNCHANGED <<event, pattern, mpc, timeTick, tickReady, cur, eidx, noticeBuffer,
                   bufClosed, errClosed, noticesClosed, workerVars, histVars>>

\* mutant: the timer is left armed after its tick was taken
TimerAfterTick_kept(t) == t

\* timeTick = nil, in case <-timeTick
TimerAfterTick(t) == "nil"

\* case <-timeTick: timeTick = nil; ncc <- noticeBuffer (the send itself
\* completes in WorkerRecvReq; on a closed ncc it panics at once)
MonTick ==
    /\ Running
    /\ mpc = "select"
    /\ timeTick # "nil"
    /\ tickReady
    /\ timeTick' = TimerAfterTick(timeTick)
    /\ tickReady' = FALSE
    /\ IF nccClosed
         THEN /\ panicked' = "send on closed channel: ncc"
              /\ UNCHANGED mpc
         ELSE /\ mpc' = "sendReq"
              /\ UNCHANGED panicked
    /\ UNCHANGED <<event, pattern, returning, cur, eidx, chanVars, workerVars,
                   histVars, spc>>

\* mutant: the filter tests for a common bit, e & n.Type() != 0
Matches_mask(e, n) ==
    \E b \in {FileCreate, FileUpdate, FileRemove, FileRename} :
        (e \div b) % 2 = 1 /\ (n.event \div b) % 2 = 1

\* if e == n.Type()
Matches(e, n) == e = n.event

\* the range over event, from position i: the next position whose event
\* matches n, Len(event)+1 when the range is exhausted
NextMatch(n, i) ==
    LET js == {j \in i..Len(event) : Matches(event[j], n)}
    IN  IF js = {} THEN Len(event) + 1
        ELSE CHOOSE j \in js : \A k \in js : j <= k

\* case n := <-noticeBuffer, up to the first m.notices <- n (or to the end of
\* the range when no event matches)
MonRecvNotice ==
    /\ Running
    /\ mpc = "select"
    /\ noticeBuffer # <<>>
    /\ LET n == Head(noticeBuffer)
           j == NextMatch(n, 1)
       IN  /\ noticeBuffer' = Tail(noticeBuffer)
           /\ IF j > Len(event)
                THEN UNCHANGED <<mpc, cur, eidx>>
                ELSE /\ mpc' = "forward"
                     /\ cur' = n
                     /\ eidx' = j
    /\ UNCHANGED <<event, pattern, returning, timeTick, tickReady, bufClosed,
                   nccClosed, errClosed, noticesClosed, workerVars, written,
                   delivered, atClose, reqSent, statusRecv, finalErr, replies, stopErr,
                   spc, panicked>>

\* m.notices <- n: the consumer receives it; then the range goes on to the
\* next matching event, or ends
MonSend ==
    /\ Running
    /\ mpc = "forward"
    /\ IF noticesClosed
         THEN /\ panicked' = "send on closed channel: notices"
              /\ UNCHANGED <<mpc, cur, eidx, delivered>>
         ELSE LET j == NextMatch(cur, eidx + 1)
              IN  /\ delivered' = Append(delivered, cur)
                  /\ IF j > Len(event)
                       THEN /\ mpc' = "select"
                            /\ cur' = NoNotice
                            /\ eidx' = 0
                       ELSE /\ eidx' = j
                            /\ UNCHANGED <<mpc, cur>>
                  /\ UNCHANGED panicked
    /\ UNCHANGED <<event, pattern, returning, timeTick, tickReady, chanVars,
                   workerVars, written, atClose, reqSent, statusRecv, finalErr, replies,
                   stopErr, spc>>

\* mutant: an error status re-arms the regular tick
TimerAfterStatus_tick(err) == "tick"

\* the timer armed after a status: time.After(100s) on an error, time.Tick(sleep)
\* on success
TimerAfterStatus(err) == IF err THEN "after" ELSE "tick"

\* case err, ok := <-errorCheck with ok: the worker's errors <- err completes
\* and the worker's loop body ends (its locals go out of scope)
MonRecvStatus ==
    /\ Running
    /\ mpc = "select"
    /\ wpc = "status"
    /\ wpc' = "range"
    /\ timeTick' = TimerAfterStatus(werr)
    /\ tickReady' = FALSE
    /\ statusRecv' = statusRecv + 1
    /\ finalErr' = (nccClosed /\ werr)
    /\ prevCheck' = NilMap
    /\ visited' = EmptyMap
    /\ created' = 0
    /\ werr' = FALSE
    /\ widx' = 0
    /\ UNCHANGED <<event, pattern, mpc, returning, cur, eidx, chanVars, lastCheck,
                   pending, pinfo, todo, written, delivered, atClose, reqSent,
                   replies, stopErr, spc, panicked>>

\* mutant: the shutdown branch forwards the notice it takes from the buffer
ShutdownForward_sent(n) == <<n>>

\* what the shutdown branch puts on m.notices for the notice it takes from
\* the buffer: nothing, the notice is logged and dropped
ShutdownForward(n) == <<>>

\* mutant: the shutdown branch is entered as soon as ncc has been closed
StatusChannelClosed_early == nccClosed

\* !ok in case err, ok := <-errorCheck: the status channel is closed
StatusChannelClosed == errClosed

\* case err, ok := <-errorCheck with !ok: take at most one buffered notice,
\* close(noticeBuffer), then returning <- nil
MonRecvClosed ==
    /\ Running
    /\ mpc = "select"
    /\ StatusChannelClosed
    /\ atClose' = noticeBuffer
    /\ IF noticeBuffer # <<>>
         THEN /\ noticeBuffer' = Tail(noticeBuffer)
              /\ delivered' = delivered \o ShutdownForward(Head(noticeBuffer))
         ELSE UNCHANGED <<noticeBuffer, delivered>>
    /\ IF bufClosed
         THEN /\ panicked' = "close of closed channel: noticeBuffer"
              /\ UNCHANGED <<bufClosed, mpc>>
         ELSE /\ bufClosed' = TRUE
              /\ mpc' = "reply"
              /\ UNCHANGED panicked
    /\ UNCHANGED <<event, pattern, returning, timeTick, tickReady, cur, eidx,
                   nccClosed, errClosed, noticesClosed, workerVars, written,
                   reqSent, statusRecv, finalErr, replies, stopErr, spc>>

\* mutant: the return after returning <- nil is missing, the loop goes on
MonitorAfterReply_loop == "select"

\* return, after returning <- nil
MonitorAfterReply == "done"

\* returning <- nil received by Stop's <-stopper; return
MonReply ==
    /\ Running
    /\ mpc = "reply"
    /\ returning # NilChan
    /\ spc[returning] = "waitReply"
    /\ replies' = [replies EXCEPT ![returning] = @ + 1]
    /\ stopErr' = [stopErr EXCEPT ![returning] = "nil"]
    /\ spc' = [spc EXCEPT ![returning] = "closing"]
    /\ mpc' = MonitorAfterReply
    /\ UNCHANGED <<event, pattern, returning, timeTick, tickReady, cur, eidx,
                   chanVars, workerVars, written, delivered, atClose, reqSent,
                   statusRecv, finalErr, panicked>>


(* ------------------ pathScanner.Watch: the scan worker ----------------- *)
\* for changed := range ncc: the Monitor's ncc <- noticeBuffer completes and
\* the loop body starts: visited := make(map), created := 0, filepath.Walk
WorkerRecvReq ==
    /\ Running
    /\ mpc = "sendReq"
    /\ wpc = "range"
    /\ mpc' = "select"
    /\ wpc' = "walk"
    /\ visited' = EmptyMap
    /\ created' = 0
    /\ werr' = FALSE
    /\ widx' = 1
    /\ reqSent' = reqSent + 1
    /\ UNCHANGED <<event, pattern, returning, timeTick, tickReady, cur, eidx,
                   chanVars, lastCheck, prevCheck, pending, pinfo, todo, written, delivered,
                   atClose, statusRecv, finalErr, replies, stopErr, spc, panicked>>

\* the range over s.pattern from position i: re.FindStringIndex(file) != nil;
\* on the zero Regexp the call dereferences a nil program
RECURSIVE MatchFrom(_, _)
MatchFrom(file, i) ==
    IF i > Len(pattern) THEN "nomatch"
    ELSE IF pattern[i].zero THEN "panic"
    ELSE IF pattern[i].lit = file THEN "match"
    ELSE MatchFrom(file, i + 1)

\* matched := false || len(s.pattern) == 0, then the range over s.pattern
PatternResult(file) ==
    IF Len(pattern) = 0 THEN "match" ELSE MatchFrom(file, 1)

\* mutant: a file that is not in s.lastCheck is reported as renamed
Detect_rename(file, info) ==
    IF file \in DOMAIN lastCheck.items
      THEN IF info.mtime > lastCheck.items[file].mtime THEN FileUpdate
           ELSE IF lastCheck.items[file].size # info.size THEN FileUpdate
           ELSE 0
      ELSE IF ~lastCheck.isNil THEN FileRename
      ELSE 0

\* mutant: a modification time that is not earlier counts as an update
Detect_notbefore(file, info) ==
    IF file \in DOMAIN lastCheck.items
      THEN IF info.mtime >= lastCheck.items[file].mtime THEN FileUpdate
           ELSE IF lastCheck.items[file].size # info.size THEN FileUpdate
           ELSE 0
      ELSE IF ~lastCheck.isNil THEN FileCreate
      ELSE 0

\* mutant: without a previous snapshot every file is reported as created
Detect_nobaseline(file, info) ==
    IF file \in DOMAIN lastCheck.items
      THEN IF info.mtime > lastCheck.items[file].mtime THEN FileUpdate
           ELSE IF lastCheck.items[file].size # info.size THEN FileUpdate
           ELSE 0
      ELSE FileCreate

\* mutant: only the modification time is compared
Detect_mtime(file, info) ==
    IF file \in DOMAIN lastCheck.items
      THEN IF info.mtime > lastCheck.items[file].mtime THEN FileUpdate
           ELSE 0
      ELSE IF ~lastCheck.isNil THEN FileCreate
      ELSE 0

\* mutant: a file that is not in s.lastCheck is reported as an update
Detect_update(file, info) ==
    IF file \in DOMAIN lastCheck.items
      THEN IF info.mtime > lastCheck.items[file].mtime THEN FileUpdate
           ELSE IF lastCheck.items[file].size # info.size THEN FileUpdate
           ELSE 0
      ELSE IF ~lastCheck.isNil THEN FileUpdate
      ELSE 0

\* the notice kind the walk callback sends for a matched file, 0 for none
Detect(file, info) ==
    IF file \in DOMAIN lastCheck.items
      THEN IF info.mtime > lastCheck.items[file].mtime THEN FileUpdate
           ELSE IF lastCheck.items[file].size # info.size THEN FileUpdate
           ELSE 0
      ELSE IF ~lastCheck.isNil THEN FileCreate
      ELSE 0

\* visited[file] = info
Put(m, file, info) ==
    [f \in DOMAIN m \cup {file} |-> IF f = file THEN info ELSE m[f]]

\* the tree does not hold the next file of WalkOrder: the walk passes on
WalkSkip ==
    /\ Running
    /\ wpc = "walk"
    /\ widx <= Len(WalkOrder)
    /\ widx' = widx + 1
    /\ UNCHANGED <<event, pattern, monVars, chanVars, wpc, lastCheck, prevCheck, visited,
                   created, werr, pending, pinfo, todo, histVars, spc, panicked>>

\* the walk callback on a regular file with FileInfo info, up to its send on
\* changed (which WorkerSend completes) or to its return
WalkVisit(info) ==
    /\ Running
    /\ wpc = "walk"
    /\ widx <= Len(WalkOrder)
    /\ LET file == WalkOrder[widx]
           res == PatternResult(file)
           kind == Detect(file, info)
       IN  IF res = "panic"
             THEN /\ panicked' = "nil pointer dereference: zero Regexp"
                  /\ UNCHANGED <<wpc, visited, widx, pending, pinfo>>
             ELSE IF res = "nomatch"
             THEN /\ widx' = widx + 1
                  /\ UNCHANGED <<wpc, visited, pending, pinfo, panicked>>
             ELSE IF kind # 0
             THEN /\ pending' = [cycle |-> reqSent, path |-> file, event |-> kind]
                  /\ pinfo' = info
                  /\ wpc' = "send"
                  /\ UNCHANGED <<visited, widx, panicked>>
             ELSE /\ visited' = Put(visited, file, info)
                  /\ widx' = widx + 1
                  /\ UNCHANGED <<wpc, pending, pinfo, panicked>>
    /\ UNCHANGED <<event, pattern, monVars, chanVars, lastCheck, prevCheck, created, werr,
                   todo, histVars, spc>>

\* mutant: the shortcut compares the two lengths without the created counter
NeedsRemovalPass_lengths ==
    /\ ~lastCheck.isNil
    /\ Cardinality(DOMAIN lastCheck.items) > Cardinality(DOMAIN visited)

\* if s.lastCheck != nil && len(s.lastCheck) > (len(visited)-created)
NeedsRemovalPass ==
    /\ ~lastCheck.isNil
    /\ Cardinality(DOMAIN lastCheck.items) > Cardinality(DOMAIN visited) - created

\* the keys of s.lastCheck for which the removal range sends a Remove:
\* if _, ok := visited[file]; !ok
Missing == {file \in DOMAIN lastCheck.items : file \notin DOMAIN visited}

\* s.lastCheck = visited; then errors <- err (completed by MonRecvStatus)
Install ==
    /\ prevCheck' = lastCheck
    /\ lastCheck' = [isNil |-> FALSE, items |-> visited]
    /\ wpc' = "status"

\* filepath.Walk has returned: enter the removal range, or skip it (then, and
\* when the range sends nothing, the worker goes on to install the snapshot)
AfterWalk ==
    IF NeedsRemovalPass /\ Missing # {}
      THEN /\ wpc' = "remove"
           /\ todo' = Missing
           /\ UNCHANGED <<lastCheck, prevCheck>>
      ELSE /\ Install
           /\ UNCHANGED todo

\* filepath.Walk returns nil after the last file
WalkEnd ==
    /\ Running
    /\ wpc = "walk"
    /\ widx > Len(WalkOrder)
    /\ AfterWalk
    /\ UNCHANGED <<event, pattern, monVars, chanVars, visited, created,
                   werr, widx, pending, pinfo, histVars, spc, panicked>>

\* a directory cannot be read: the callback returns the error it was given
\* and filepath.Walk stops there and returns it
WalkAbort ==
    /\ Running
    /\ wpc = "walk"
    /\ werr' = TRUE
    /\ AfterWalk
    /\ UNCHANGED <<event, pattern, monVars, chanVars, visited, created,
                   widx, pending, pinfo, histVars, spc, panicked>>

\* mutant: the buffer hands out the newest notice first
BufferPut_front(q, n) == <<n>> \o q

\* a completed send on the buffered channel: the value goes to the back of
\* the channel's queue
BufferPut(q, n) == Append(q, n)

\* changed <- &fileSystemNotice{...}: blocks while the buffer is full; in the
\* callback it is followed by created += 1 (for a Create) and visited[file] = info,
\* after the last Remove of the removal range by s.lastCheck = visited
WorkerSend ==
    /\ Running
    /\ wpc \in {"send", "sendRemove"}
    /\ IF bufClosed
         THEN /\ panicked' = "send on closed channel: noticeBuffer"
              /\ UNCHANGED <<noticeBuffer, wpc, visited, created, widx, pending, pinfo,
                             written, lastCheck, prevCheck>>
         ELSE /\ Len(noticeBuffer) < notice_buffer_length
              /\ noticeBuffer' = BufferPut(noticeBuffer, pending)
              /\ written' = Append(written, pending)
              /\ pending' = NoNotice
              /\ pinfo' = NoInfo
              /\ IF wpc = "send"
                   THEN /\ created' = IF pending.event = FileCreate
                                        THEN created + 1 ELSE created
                        /\ visited' = Put(visited, pending.path, pinfo)
                        /\ widx' = widx + 1
                        /\ wpc' = "walk"
                        /\ UNCHANGED <<lastCheck, prevCheck>>
                   ELSE /\ IF todo = {}
                             THEN Install
                             ELSE /\ wpc' = "remove"
                                  /\ UNCHANGED <<lastCheck, prevCheck>>
                        /\ UNCHANGED <<visited, created, widx>>
              /\ UNCHANGED panicked
    /\ UNCHANGED <<event, pattern, monVars, bufClosed, nccClosed, errClosed,
                   noticesClosed, werr, todo, delivered, atClose, reqSent,
                   statusRecv, finalErr, replies, stopErr, spc>>

\* one iteration of for file, info := range s.lastCheck that sends a Remove
\* (Go ranges over a map in no fixed order)
WorkerRemove(file) ==
    /\ Running
    /\ wpc = "remove"
    /\ file \in todo
    /\ todo' = todo \ {file}
    /\ pending' = [cycle |-> reqSent, path |-> file, event |-> FileRemove]
    /\ wpc' = "sendRemove"
    /\ UNCHANGED <<event, pattern, monVars, chanVars, lastCheck, prevCheck, visited, created,
                   werr, widx, pinfo, histVars, spc, panicked>>

\* mutant: the traversal is given up as soon as ncc is closed
CanObserveClose_midwalk == wpc \in {"range", "walk"}

\* the position from which the worker can see that ncc is closed: only
\* for changed := range ncc receives from it
CanObserveClose == wpc = "range"

\* range ncc ends on the closed channel; defer close(errors)
WorkerExit ==
    /\ Running
    /\ CanObserveClose
    /\ nccClosed
    /\ wpc' = "exited"
    /\ errClosed' = TRUE
    /\ UNCHANGED <<event, pattern, monVars, noticeBuffer, bufClosed, nccClosed,
                   noticesClosed, lastCheck, prevCheck, visited, created, werr, widx, pending,
                   pinfo, todo, histVars, spc, panicked>>

(* --------------------------- specification ----------------------------- *)
Next ==
    \/ \E c \in Callers : StopCall(c)
    \/ \E c \in Callers : StopClose(c)
    \/ TimerFire
    \/ \E c \in Callers : MonRecvClosing(c)
    \/ MonTick
    \/ MonRecvNotice
    \/ MonSend
    \/ MonRecvStatus
    \/ MonRecvClosed
    \/ MonReply
    \/ WorkerRecvReq
    \/ WalkSkip
    \/ \E info \in Metas : WalkVisit(info)
    \/ WalkEnd
    \/ WalkAbort
    \/ WorkerSend
    \/ \E file \in Files : WorkerRemove(file)
    \/ WorkerExit

Spec == Init /\ [][Next]_vars

\* Start(sleep, FileCreate|FileUpdate, FileRemove): one requested value is the
\* union of two flags
UnionInputs == { <<3, FileRemove>> }

InitUnion == InitWith(UnionInputs)

SpecUnion == InitUnion /\ [][Next]_vars

\* the scan cycles alone: no pattern, no subscriber (the Monitor takes the
\* notices out of the buffer and drops them), Stop never called, and files
\* whose modification time and size vary independently of each other
ScanEvents == { <<>> }

ScanMetas == [mtime : {1, 2}, size : {1, 2}]

InitScan ==
    /\ InitWith(ScanEvents)
    /\ pattern = New(<<>>)

NextScan ==
    \/ TimerFire
    \/ MonTick
    \/ MonRecvNotice
    \/ MonRecvStatus
    \/ WorkerRecvReq
    \/ WalkSkip
    \/ \E info \in ScanMetas : WalkVisit(info)
    \/ WalkEnd
    \/ WalkAbort
    \/ WorkerSend
    \/ \E file \in Files : WorkerRemove(file)

SpecScan == InitScan /\ [][NextScan]_vars

\* the program with callers that call Stop late: only once the Monitor has
\* received the status of StopAfter scan cycles
StopAfter == MaxCycles - 1

LateStopCall(c) ==
    /\ statusRecv >= StopAfter
    /\ StopCall(c)

NextLate ==
    \/ \E c \in Callers : LateStopCall(c)
    \/ \E c \in Callers : StopClose(c)
    \/ TimerFire
    \/ \E c \in Callers : MonRecvClosing(c)
    \/ MonTick
    \/ MonRecvNotice
    \/ MonSend
    \/ MonRecvStatus
    \/ MonRecvClosed
    \/ MonReply
    \/ WorkerRecvReq
    \/ WalkSkip
    \/ \E info \in Metas : WalkVisit(info)
    \/ WalkEnd
    \/ WalkAbort
    \/ WorkerSend
    \/ \E file \in Files : WorkerRemove(file)
    \/ WorkerExit

SpecLate == Init /\ [][NextLate]_vars

\* the steps of the program in which no send m.notices <- n completes
NextNoSend ==
    \/ \E c \in Callers : StopCall(c)
    \/ \E c \in Callers : StopClose(c)
    \/ TimerFire
    \/ \E c \in Callers : MonRecvClosing(c)
    \/ MonTick
    \/ MonRecvNotice
    \/ MonRecvStatus
    \/ MonRecvClosed
    \/ MonReply
    \/ WorkerRecvReq
    \/ WalkSkip
    \/ \E info \in Metas : WalkVisit(info)
    \/ WalkEnd
    \/ WalkAbort
    \/ WorkerSend
    \/ \E file \in Files : WorkerRemove(file)
    \/ WorkerExit

\* Start(sleep, FileRename): the subscriber asks for Rename only. The send
\* m.notices <- n is never reached, which C26_RenameNeverProduced states as
\* the Monitor never being at it
RenameInputs == { <<FileRename>> }

InitRename == InitWith(RenameInputs)

SpecRename == InitRename /\ [][NextNoSend]_vars

\* the program with nobody receiving from Notices(): a send m.notices <- n
\* that the Monitor has started never completes
SpecNoConsumer == Init /\ [][NextNoSend]_vars

TypeOK ==
    /\ mpc \in {"select", "sendReq", "forward", "reply", "done"}
    /\ wpc \in {"range", "walk", "send", "remove", "sendRemove", "status", "exited"}
    /\ timeTick \in {"nil", "tick", "after"}
    /\ returning \in {NilChan} \cup Callers
    /\ Len(noticeBuffer) <= notice_buffer_length
    /\ finalErr \in BOOLEAN
    /\ \A c \in Callers : stopErr[c] \in {"none", "nil", "err"}
    /\ ~prevCheck.isNil => wpc = "status"


(* ------------------------------ properties ----------------------------- *)
\* the worker is inside a scan cycle: between taking a request and the
\* Monitor's receipt of its status
Scanning == wpc \in {"walk", "send", "remove", "sendRemove", "status"}

\* a Stop caller has been sent its reply
Released == \E c \in Callers : replies[c] > 0

\* C1: scan cycles are strictly serialized. At most one scan request is
\* outstanding (requests taken minus statuses received is 0 or 1, and it is 1
\* exactly while the worker is inside a cycle), and the Monitor is at
\* ncc <- noticeBuffer only when every earlier request has had its status
\* received and the worker is back at range ncc.
C1_ScansSerialized ==
    /\ reqSent - statusRecv \in {0, 1}
    /\ Scanning <=> reqSent = statusRecv + 1
    /\ mpc = "sendReq" => (reqSent = statusRecv /\ wpc = "range")

\* the Monitor hands over a third request after two completed cycles
C1_Witness == mpc = "sendReq" /\ reqSent = 2 /\ statusRecv = 2

\* C2 (as claimed): once ncc has been closed for shutdown, the Monitor never
\* attempts ncc <- noticeBuffer again, so no send on the closed request
\* channel happens.
C2_NoRequestAfterShutdown == panicked # "send on closed channel: ncc"

\* C3 (as claimed): a Stop call returns and the notice stream is closed. In
\* its finite form: while a Stop call (the only one made) has not yet
\* returned, the process is still alive to complete it.
C3_StopReturns ==
    \A c \in Callers :
        (spc[c] \in {"sendClosing", "waitReply", "closing"}
            /\ \A d \in Callers \ {c} : spc[d] = "idle")
        => Running

\* C4: the notice buffer and the outbound stream are closed only after the
\* worker has exited and closed its status channel; the worker never sends
\* on a closed buffer.
C4_ClosedAfterWorkerExit ==
    /\ (bufClosed \/ noticesClosed) => (wpc = "exited" /\ errClosed)
    /\ noticesClosed => bufClosed
    /\ panicked # "send on closed channel: noticeBuffer"

\* both channels are closed after a run in which the worker wrote notices
C4_Witness == bufClosed /\ noticesClosed /\ written # <<>>

\* C5: once a Stop caller has been released, nothing more is sent on the
\* outbound stream; the stream is closed only after the release, is closed
\* at most once and is never sent on after its close.
C5_NoSendAfterRelease ==
    /\ [][Released => delivered' = delivered]_vars
    /\ [](noticesClosed => (Released /\ mpc = "done"))
    /\ [](panicked \notin {"send on closed channel: notices",
                           "close of closed channel: notices"})

\* the stream is closed after notices were delivered and the caller released
C5_Witness == Released /\ noticesClosed /\ delivered # <<>> /\ noticeBuffer # <<>>


\* C6: the caller blocked in Stop is released exactly once. No reply channel
\* is ever sent more than one value; a value is sent only after the worker
\* has exited and its status channel is closed; a caller is past <-stopper
\* exactly when its one value was sent; and when Start returns it has sent
\* exactly one value, on the channel of the caller whose request it holds.
C6_ReleasedExactlyOnce ==
    /\ \A c \in Callers :
          /\ replies[c] <= 1
          /\ replies[c] = 1 => (errClosed /\ wpc = "exited" /\ bufClosed)
          /\ spc[c] \in {"closing", "returned"} <=> replies[c] = 1
    /\ mpc = "done" => (returning \in Callers /\ replies[returning] = 1)

\* a Stop call has returned after being sent its one reply
C6_Witness == \E c \in Callers : replies[c] = 1 /\ spc[c] = "returned"

\* C7 (as claimed): whenever the Monitor hands the next scan request to the
\* worker, the notice buffer holds no notice written during an earlier cycle.
C7_BufferDrainedBeforeNextScan ==
    mpc = "sendReq" =>
        \A i \in 1..Len(noticeBuffer) : noticeBuffer[i].cycle > reqSent

\* C8: the worker is never abandoned mid-traversal by shutdown. When the
\* status channel is closed the worker has left its loop from range ncc:
\* every request it took has had its status received by the Monitor, no
\* notice is half-sent and the snapshot of the last cycle is installed; and
\* a cycle reports its status only with its snapshot installed.
C8_WorkerFinishesCycle ==
    /\ errClosed =>
          /\ wpc = "exited"
          /\ statusRecv = reqSent
          /\ pending = NoNotice
          /\ reqSent > 0 => ~lastCheck.isNil
    /\ wpc = "status" => lastCheck = [isNil |-> FALSE, items |-> visited]
    /\ (nccClosed /\ Scanning) => ~errClosed

\* shutdown was requested during a scan, and the worker has finished the
\* traversal, installed the snapshot and is reporting the cycle's status
C8_Witness == nccClosed /\ wpc = "status" /\ ~errClosed /\ written # <<>>

\* C9: the notices in the buffer when the Monitor observes the closed status
\* channel are discarded: none of them is ever forwarded on the outbound
\* stream, whatever its kind.
C9_BufferedAtCloseDiscarded ==
    \A i \in 1..Len(atClose) : \A j \in 1..Len(delivered) : delivered[j] # atClose[i]

\* Start has returned after finding in the buffer a notice of a requested kind
C9_Witness ==
    /\ mpc = "done"
    /\ \E i \in 1..Len(atClose) : atClose[i].event \in Range(event)

\* a notice the worker wrote that case n := <-noticeBuffer has taken and
\* whose range over event is finished
Handled(n) ==
    /\ n \notin Range(noticeBuffer)
    /\ n \notin Range(atClose)
    /\ n # cur

\* C10: subscriber filter. Every notice on the outbound stream has a kind
\* that is one of the event values passed to Start; a notice taken from the
\* buffer is forwarded if its kind is one of them and is dropped otherwise
\* (so nothing is forwarded when no event value was passed).
C10_SubscriberFilter ==
    /\ \A j \in 1..Len(delivered) : delivered[j].event \in Range(event)
    /\ mpc = "forward" => cur.event \in Range(event)
    /\ \A i \in 1..Len(written) :
          Handled(written[i]) =>
              (written[i] \in Range(delivered) <=> written[i].event \in Range(event))

\* one taken notice was forwarded and another, of a kind not asked for, dropped
C10_Witness ==
    \E i, j \in 1..Len(written) :
        /\ Handled(written[i]) /\ written[i] \in Range(delivered)
        /\ Handled(written[j]) /\ written[j].event \notin Range(event)

\* the flag k (a single bit) is set in the event value e: e&k == k
HasFlag(e, k) == (e \div k) % 2 = 1

\* C11 (as claimed): the filter treats event values as sets of flags. When a
\* value passed to Start includes Create, every notice taken from the buffer
\* whose kind includes Create is forwarded on the outbound stream.
C11_UnionFilter ==
    \A i \in 1..Len(written) :
        ( /\ Handled(written[i])
          /\ HasFlag(written[i].event, FileCreate)
          /\ \E j \in 1..Len(event) : HasFlag(event[j], FileCreate) )
        => written[i] \in Range(delivered)

\* C12: a scan-cycle error never terminates the pipeline. On receipt of an
\* error status the Monitor closes no channel, stays in its select loop and
\* arms only the one-shot cooldown timer (the regular tick stays disarmed);
\* the cooldown timer stays armed until the Monitor takes it, and taking a
\* fired timer is the only way a scan request is issued; this holds for
\* every error status, whatever came before it, and a successful status
\* re-arms the regular tick.
C12_ErrorCooldown ==
    [][ /\ (statusRecv' # statusRecv /\ werr) =>
              /\ panicked' = NoPanic
              /\ chanVars' = chanVars
              /\ mpc' = "select"
              /\ timeTick' = "after"
              /\ ~tickReady'
        /\ (statusRecv' # statusRecv /\ ~werr) => timeTick' = "tick"
        /\ (timeTick = "after" /\ statusRecv' = statusRecv) =>
              \/ timeTick' = "after"
              \/ /\ timeTick' = "nil"
                 /\ tickReady
                 /\ mpc' = "sendReq" \/ panicked' # NoPanic
        /\ (mpc = "select" /\ mpc' = "sendReq") => (tickReady /\ timeTick # "nil")
      ]_vars

\* the second status was an error: nothing is closed, the Monitor is
\* back in its select loop and the cooldown timer it armed has fired
C12_Witness ==
    /\ statusRecv = 2
    /\ timeTick = "after"
    /\ tickReady
    /\ mpc = "select"
    /\ panicked = NoPanic
    /\ ~nccClosed /\ ~bufClosed /\ ~errClosed /\ ~noticesClosed

\* C13 (as claimed): a Stop call that has returned got an error from the
\* Monitor if the worker reported a non-nil status for the cycle it was
\* finishing when the request channel was closed, and nil otherwise.
C13_StopReportsFinalError ==
    \A c \in Callers :
        spc[c] = "returned" => (stopErr[c] = "err" <=> finalErr)

\* C14 (as claimed): an aborted traversal produces no snapshot. When the
\* worker is about to report a non-nil error, s.lastCheck is what it was
\* before the scan: the partial mapping has not been installed.
C14_AbortKeepsSnapshot ==
    (wpc = "status" /\ werr) => lastCheck = prevCheck

\* C15 (as claimed): the pattern set New gives the scanner is exactly the
\* compiled expressions of the pattern strings passed in, one entry per
\* string and no other entry, so that matching a file name against it always
\* yields included or excluded.
C15_PatternSet ==
    /\ \E pats \in PatternInputs :
          pattern = [i \in 1..Len(pats) |-> Compile(pats[i])]
    /\ \A file \in Files : PatternResult(file) \in {"match", "nomatch"}
    /\ panicked # "nil pointer dereference: zero Regexp"

\* the number of notices for file of the given kind that the worker has
\* written in the current scan cycle
Sent(file, kind) ==
    Cardinality({i \in 1..Len(written) :
                    written[i] = [cycle |-> reqSent, path |-> file, event |-> kind]})

\* the number of notices for file, of any kind, written in the current cycle
SentAny(file) ==
    Cardinality({i \in 1..Len(written) :
                    written[i].cycle = reqSent /\ written[i].path = file})

\* the worker is at errors <- err: the scan is over and its snapshot installed
AtStatus == wpc = "status"

\* C16: removal detection is exact. In a completed scan with previous
\* snapshot P and current snapshot C the worker has written exactly one
\* Remove for each identity of P absent from C and no Remove for any other
\* identity; and whenever the walk may end with an identity of P missing
\* from the mapping, the length test len(P) > len(C) - created is true, so
\* the removal range is not skipped.
C16_RemovalExact ==
    /\ (AtStatus /\ ~werr) =>
          \A file \in Files :
              Sent(file, FileRemove) =
                  IF file \in DOMAIN prevCheck.items /\ file \notin DOMAIN visited
                    THEN 1 ELSE 0
    /\ (wpc = "walk" /\ ~lastCheck.isNil /\ Missing # {}) => NeedsRemovalPass

\* a completed scan that found one file gone and another one new, so that
\* the two snapshots have the same length
C16_Witness ==
    /\ AtStatus /\ ~werr
    /\ DOMAIN prevCheck.items = {"a"}
    /\ DOMAIN visited = {"b"}
    /\ Sent("a", FileRemove) = 1

\* C17: creation detection is exact once a baseline exists. In a scan whose
\* previous snapshot P is present (possibly empty) the worker has written
\* exactly one Create for each identity of the current mapping absent from
\* P, no Create for an identity of P, and at most one notice of any kind per
\* identity.
C17_CreationExact ==
    (AtStatus /\ ~prevCheck.isNil) =>
        \A file \in Files :
            /\ Sent(file, FileCreate) =
                  IF file \in DOMAIN visited /\ file \notin DOMAIN prevCheck.items
                    THEN 1 ELSE 0
            /\ SentAny(file) <= 1

\* a was reported as created in the previous cycle and is now part of the
\* baseline; this scan finds a and b and reports only b as created
C17_Witness ==
    /\ AtStatus
    /\ ~prevCheck.isNil
    /\ "a" \in DOMAIN prevCheck.items
    /\ DOMAIN visited = {"a", "b"}
    /\ Sent("b", FileCreate) = 1
    /\ Sent("a", FileCreate) = 0
    /\ \E i \in 1..Len(written) :
          written[i] = [cycle |-> reqSent - 1, path |-> "a", event |-> FileCreate]

\* C18: the update rule. For an identity present in both the previous and
\* the current snapshot the worker has written exactly one Update when the
\* current modification time is strictly after the previous one, or, when it
\* is not, when the sizes differ; otherwise it has written no notice for
\* that identity.
C18_UpdateRule ==
    AtStatus =>
        \A file \in DOMAIN prevCheck.items \cap DOMAIN visited :
            LET old == prevCheck.items[file]
                new == visited[file]
            IN  /\ Sent(file, FileUpdate) =
                      IF new.mtime > old.mtime THEN 1
                      ELSE IF new.size # old.size THEN 1
                      ELSE 0
                /\ SentAny(file) = Sent(file, FileUpdate)

\* in one scan, a has an earlier modification time and another size (one
\* Update) and b an earlier modification time and the same size (no notice)
C18_Witness ==
    /\ AtStatus
    /\ DOMAIN prevCheck.items = {"a", "b"}
    /\ DOMAIN visited = {"a", "b"}
    /\ visited["a"].mtime < prevCheck.items["a"].mtime
    /\ visited["a"].size # prevCheck.items["a"].size
    /\ Sent("a", FileUpdate) = 1
    /\ visited["b"].mtime < prevCheck.items["b"].mtime
    /\ visited["b"].size = prevCheck.items["b"].size
    /\ SentAny("b") = 0

\* C19: idempotence on an unchanged tree. When a scan has seen the same
\* identities with the same modification times and sizes as the previous
\* snapshot holds, the worker has written no notice in that cycle and the
\* snapshot is equal to what it was.
C19_UnchangedTree ==
    (AtStatus /\ ~prevCheck.isNil /\ visited = prevCheck.items) =>
        /\ \A i \in 1..Len(written) : written[i].cycle # reqSent
        /\ lastCheck = prevCheck

\* the third scan has seen again the two files as the second one left them
C19_Witness ==
    /\ AtStatus
    /\ ~werr
    /\ reqSent = 3
    /\ ~prevCheck.isNil
    /\ DOMAIN visited = {"a", "b"}
    /\ visited = prevCheck.items
    /\ lastCheck = prevCheck

\* C20: first-scan baseline. In a scan without a previous snapshot the
\* worker writes no notice of any kind and installs the scanned mapping as
\* the snapshot; an item first seen in the scan after it is then reported
\* as Create.
C20_FirstScanBaseline ==
    /\ (Scanning /\ reqSent = 1) => (lastCheck.isNil \/ AtStatus)
    /\ (AtStatus /\ prevCheck.isNil) =>
          /\ reqSent = 1
          /\ lastCheck = [isNil |-> FALSE, items |-> visited]
    /\ \A i \in 1..Len(written) : written[i].cycle # 1
    /\ (AtStatus /\ reqSent = 2) =>
          \A file \in DOMAIN visited \ DOMAIN prevCheck.items :
              Sent(file, FileCreate) = 1

\* the first scan found a and wrote nothing; the second finds b as well and
\* has written one Create for it
C20_Witness ==
    /\ AtStatus
    /\ reqSent = 2
    /\ DOMAIN prevCheck.items = {"a"}
    /\ DOMAIN visited = {"a", "b"}
    /\ Sent("b", FileCreate) = 1
    /\ \A i \in 1..Len(written) : written[i].cycle = 2

\* C21 (as claimed): each notice the worker wrote is forwarded on the
\* outbound stream at most once, whatever the list of event values passed to
\* Start (a list may name the same kind more than once), also across shutdown.
C21_ForwardedAtMostOnce ==
    \A i, j \in 1..Len(delivered) : i # j => delivered[i] # delivered[j]

\* C22 (as claimed): shutdown loses no detected change. Stop being called
\* only after the status of the first StopAfter cycles was received, once
\* the outbound stream is closed every notice of a requested kind that the
\* worker wrote during one of those cycles has been forwarded on it.
C22_NoLossAtShutdown ==
    noticesClosed =>
        \A i \in 1..Len(written) :
            (written[i].cycle <= StopAfter /\ written[i].event \in Range(event))
            => written[i] \in Range(delivered)

\* C23 (as claimed): a scan whose traversal was aborted with an error has
\* written no Remove for a file that the traversal did not reach (a file at
\* or after the position where filepath.Walk stopped).
C23_NoRemoveOnAbort ==
    (AtStatus /\ werr) =>
        \A i \in 1..Len(WalkOrder) :
            i >= widx => Sent(WalkOrder[i], FileRemove) = 0

\* the position in written of the notice n
WrittenAt(n) == CHOOSE i \in 1..Len(written) : written[i] = n

\* C24: ordering. The worker writes the notices of one cycle after those of
\* the cycles before it and, within a cycle, every Create and Update before
\* any Remove; the Monitor forwards only notices the worker wrote, in the
\* order in which the worker wrote them.
C24_Ordering ==
    /\ \A i, j \in 1..Len(written) :
          i < j =>
              /\ written[i].cycle <= written[j].cycle
              /\ (written[i].cycle = written[j].cycle /\ written[i].event = FileRemove)
                     => written[j].event = FileRemove
    /\ \A i \in 1..Len(delivered) : delivered[i] \in Range(written)
    /\ \A i, j \in 1..Len(delivered) :
          i < j => WrittenAt(delivered[i]) <= WrittenAt(delivered[j])

\* the worker wrote a Create and then a Remove in one cycle and the Monitor
\* has forwarded both, the Create first
C24_Witness ==
    /\ Len(written) >= 2
    /\ written[1].event = FileCreate
    /\ written[2].event = FileRemove
    /\ written[1].cycle = written[2].cycle
    /\ \E i, j \in 1..Len(delivered) :
          i < j /\ delivered[i] = written[1] /\ delivered[j] = written[2]
    /\ mpc = "select"
    /\ cur = NoNotice

\* the worker is blocked inside a scan, at a send on the full notice buffer
BlockedOnFullBuffer ==
    /\ wpc \in {"send", "sendRemove"}
    /\ Len(noticeBuffer) = notice_buffer_length

\* C25 (as claimed): backpressure. The notice buffer never holds more than
\* its capacity, and a worker blocked on the full buffer is not left there:
\* the process is alive and the Monitor is on its way to take a notice out
\* of the buffer (it is in its select loop, or forwarding the notice it took
\* before), so that the scan can complete and report its status.
C25_Backpressure ==
    /\ Len(noticeBuffer) <= notice_buffer_length
    /\ BlockedOnFullBuffer =>
          /\ panicked = NoPanic
          /\ mpc \in {"select", "forward"}
          /\ ~bufClosed

\* the kinds the worker produces
Produced == {FileCreate, FileUpdate, FileRemove}

\* C26: Rename is never produced. Every notice the worker is sending, has
\* written, or that is in the buffer has kind Create, Update or Remove, and
\* so has every forwarded notice; with a subscriber that asked for Rename
\* only, no notice taken from the buffer ever matches: the Monitor never
\* gets to m.notices <- n and nothing is forwarded.
C26_RenameNeverProduced ==
    /\ \A i \in 1..Len(written) : written[i].event \in Produced
    /\ \A i \in 1..Len(noticeBuffer) : noticeBuffer[i].event \in Produced
    /\ \A i \in 1..Len(delivered) : delivered[i].event \in Produced
    /\ pending # NoNotice => pending.event \in Produced
    /\ mpc # "forward"
    /\ cur = NoNotice
    /\ delivered = <<>>

\* the worker has written a notice of each kind, the Monitor has taken them
\* all out of the buffer and the subscriber has received none
C26_Witness ==
    /\ {written[i].event : i \in 1..Len(written)} = Produced
    /\ \A i \in 1..Len(written) : Handled(written[i])
    /\ atClose = <<>>
    /\ delivered = <<>>

\* C27 (as claimed): Stop closes the channels safely. Whatever Stop calls
\* are made, no channel is closed a second time, and a caller whose request
\* the Monitor has taken and who has not been answered yet is the one the
\* Monitor holds the reply channel of.
C27_StopClosesOnce ==
    /\ panicked \notin { "close of closed channel: ncc",
                        "close of closed channel: noticeBuffer",
                        "close of closed channel: notices" }
    /\ \A c \in Callers :
          (spc[c] = "waitReply" /\ replies[c] = 0) => returning = c

\* C28 (as claimed): Stop returns even when nobody receives from the notice
\* stream. While a caller is blocked in m.closing <- stopper the Monitor is
\* not held at m.notices <- n, from which, without a consumer, it never gets
\* back to the select that accepts the request.
C28_StopWithoutConsumer ==
    \A c \in Callers : spc[c] = "sendClosing" => mpc # "forward"

=============================================================================
